---- MODULE Spec2Model ----
(***************************************************************************)
(* Model of the three DM-32 utilities:                                     *)
(*   format_BM_talkgroups_to_dm32.py   (talkgroup normaliser)              *)
(*   generate_dm32_channels_zones.py   (channel/zone generator)            *)
(*   interactive_dm32_builder.py       (interactive builder)               *)
(*                                                                         *)
(* Text is modelled as a sequence of characters; a character is a string.  *)
(* ASCII characters are one-character strings, the non-ASCII characters    *)
(* of the model are named atoms (NonAscii).  Cells that pandas holds as    *)
(* NaN, Python's None and an absent dict key are one-element sequences     *)
(* that no text can equal.                                                 *)
(***************************************************************************)
EXTENDS Integers, Sequences, FiniteSets, TLC

VARIABLES
    prog,          \* which utility runs: "normaliser", "generator", "builder"
    pc,            \* position inside main()
    inp,           \* command line arguments and prompt answers of the run
    file,          \* the input file named by the user
    df,            \* the normaliser's DataFrame (a sequence of rows)
    tg_list,       \* result of load_talkgroups
    channels,      \* list of channel dicts built by main()
    zone_map,      \* ordered zone name -> member names
    contact_csv,   \* rows written by the normaliser
    channels_csv,  \* rows written by write_channels_csv
    zones_csv,     \* rows written by write_zones_csv
    written,       \* set of output files created or overwritten by the run
    err_msg,       \* TRUE once the run printed an error message
    exc,           \* the exception that ended the run, "" if none
    retval,        \* return value of main(): 0, 1, or -1 (none)
    answers,       \* lines still to be read from standard input by a prompt
    console,       \* what a prompt function has shown and read so far
    result         \* value returned by a prompt function

vars == <<prog, pc, inp, file, df, tg_list, channels, zone_map,
          contact_csv, channels_csv, zones_csv, written, err_msg, exc, retval,
          answers, console, result>>

(***************************************************************************)
(* Bounds of the model                                                     *)
(***************************************************************************)
MaxRows == 2        \* rows of the vendor CSV read by the normaliser
MaxNameLen == 3     \* characters of a name given to sanitise_name alone
MaxTgRows == 2      \* rows of the talkgroup CSV read by load_talkgroups

(***************************************************************************)
(* Characters                                                              *)
(***************************************************************************)
NaN == <<"NaN">>
None == <<"None-object">>
NoKey == <<"absent-key">>

UpperSeq == <<"A","B","C","D","E","F","G","H","I","J","K","L","M",
              "N","O","P","Q","R","S","T","U","V","W","X","Y","Z">>
LowerSeq == <<"a","b","c","d","e","f","g","h","i","j","k","l","m",
              "n","o","p","q","r","s","t","u","v","w","x","y","z">>
DigitSeq == <<"0","1","2","3","4","5","6","7","8","9">>

Range(s) == {s[i] : i \in DOMAIN s}
Upper == Range(UpperSeq)
Lower == Range(LowerSeq)
Digit == Range(DigitSeq)
\* Python's str.isspace characters that occur in the model
WhiteSpace == {" ", "\t", "\n"}
\* non-ASCII characters of the model: e-acute, sharp s, CJK "north", euro sign
NonAscii == {"U+00E9", "U+00DF", "U+5317", "U+20AC"}
IsAscii(c) == c \notin NonAscii

ToLower(c) == IF c \in Upper
              THEN LowerSeq[CHOOSE i \in DOMAIN UpperSeq : UpperSeq[i] = c]
              ELSE c
DigitVal(c) == (CHOOSE i \in DOMAIN DigitSeq : DigitSeq[i] = c) - 1

Min(a, b) == IF a < b THEN a ELSE b
Max(a, b) == IF a > b THEN a ELSE b

\* Python slice s[:n] (a negative n counts from the end)
SliceTo(s, n) ==
    IF n >= 0 THEN SubSeq(s, 1, Min(n, Len(s)))
    ELSE SubSeq(s, 1, Max(Len(s) + n, 0))

RECURSIVE LStrip(_)
LStrip(s) == IF s # <<>> /\ Head(s) \in WhiteSpace THEN LStrip(Tail(s)) ELSE s
RECURSIVE RStrip(_)
RStrip(s) == IF s # <<>> /\ s[Len(s)] \in WhiteSpace
             THEN RStrip(SubSeq(s, 1, Len(s) - 1)) ELSE s
\* str.strip()
Strip(s) == RStrip(LStrip(s))

RECURSIVE Flatten(_)
Flatten(ss) == IF ss = <<>> THEN <<>> ELSE Head(ss) \o Flatten(Tail(ss))

\* str(int)
RECURSIVE NatStr(_)
NatStr(n) == IF n < 10 THEN <<DigitSeq[n + 1]>>
             ELSE NatStr(n \div 10) \o <<DigitSeq[(n % 10) + 1]>>
IntStr(n) == IF n < 0 THEN <<"-">> \o NatStr(-n) ELSE NatStr(n)

(***************************************************************************)
(* format_BM_talkgroups_to_dm32.py                                         *)
(***************************************************************************)
PRIVATE_CALL_IDS == {9990, 9998}

IsDigits(s) == \A i \in DOMAIN s : s[i] \in Digit
RECURSIVE DigitsVal(_)
DigitsVal(s) == IF s = <<>> THEN 0
                ELSE 10 * DigitsVal(SubSeq(s, 1, Len(s) - 1)) + DigitVal(s[Len(s)])
LowerText(s) == [i \in DOMAIN s |-> ToLower(s[i])]

\* int(float(t)) for a text t: the integer (truncated toward zero), or the
\* exception that float() or int() raises.
IntOfFloatText(t) ==
    LET u == Strip(t)
        signed == u # <<>> /\ u[1] \in {"+", "-"}
        neg == u # <<>> /\ u[1] = "-"
        body == IF signed THEN Tail(u) ELSE u
        dots == {i \in DOMAIN body : body[i] = "."}
        dot == IF dots = {} THEN Len(body) + 1 ELSE CHOOSE i \in dots : TRUE
        ip == SubSeq(body, 1, dot - 1)
        fp == SubSeq(body, dot + 1, Len(body))
        number == /\ Cardinality(dots) <= 1
                  /\ IsDigits(ip) /\ IsDigits(fp)
                  /\ Len(ip) + Len(fp) >= 1
    IN  IF LowerText(body) \in {<<"i","n","f">>, <<"i","n","f","i","n","i","t","y">>}
        THEN [kind |-> "OverflowError", v |-> 0]
        ELSE IF LowerText(body) = <<"n","a","n">>
        THEN [kind |-> "ValueError", v |-> 0]
        ELSE IF number
        THEN [kind |-> "int", v |-> IF neg THEN -DigitsVal(ip) ELSE DigitsVal(ip)]
        ELSE [kind |-> "ValueError", v |-> 0]

\* to_int: ValueError and TypeError become None, any other exception escapes
to_int(x) ==
    LET r == IntOfFloatText(x)
    IN  IF r.kind = "ValueError" THEN [kind |-> "None", v |-> 0] ELSE r

RECURSIVE FilterUpTo(_, _, _)
FilterUpTo(s, keep, n) ==
    IF n = 0 THEN <<>>
    ELSE IF n \in keep THEN Append(FilterUpTo(s, keep, n - 1), s[n])
    ELSE FilterUpTo(s, keep, n - 1)
\* rows of s at the positions in keep, in order
Filter(s, keep) == FilterUpTo(s, keep, Len(s))

\* drop_duplicates forgotten
KeepAllRows(rows) == rows
\* drop_duplicates(subset=['ID'], keep='last'): a plausible slip
DropDuplicatesKeepLast(rows) ==
    Filter(rows, {i \in DOMAIN rows : \A j \in DOMAIN rows : j > i => rows[j].ID # rows[i].ID})
\* drop_duplicates(subset=['ID'], keep='first')
DropDuplicates(rows) ==
    Filter(rows, {i \in DOMAIN rows : \A j \in DOMAIN rows : j < i => rows[j].ID # rows[i].ID})

\* the rows left as they are: sort_values forgotten
Unsorted(rows) == rows
RECURSIVE SortByID(_)
\* sort_values(by='ID') on rows whose IDs are distinct
SortByID(rows) ==
    IF rows = <<>> THEN <<>>
    ELSE LET m == CHOOSE i \in DOMAIN rows : \A j \in DOMAIN rows : rows[i].ID <= rows[j].ID
         IN  <<rows[m]>> \o SortByID(Filter(rows, DOMAIN rows \ {m}))

\* normalise_talkgroups: [raised |-> exception or "", rows |-> <<[ID, Name]>>]
normalise_talkgroups(columns, rows) ==
    IF ~ ({"Talkgroup", "ID"} \cap columns # {} /\ "Name" \in columns)
    THEN [raised |-> "KeyError", rows |-> <<>>]
    ELSE
    LET notna == Filter(rows, {i \in DOMAIN rows : rows[i].ID # NaN /\ rows[i].Name # NaN})
        conv == [i \in DOMAIN notna |-> to_int(notna[i].ID)]
        ints == Filter([i \in DOMAIN notna |-> [ID |-> conv[i].v, Name |-> notna[i].Name]],
                       {i \in DOMAIN notna : conv[i].kind = "int"})
        stripped == [i \in DOMAIN ints |-> [ID |-> ints[i].ID, Name |-> Strip(ints[i].Name)]]
    IN  IF \E i \in DOMAIN conv : conv[i].kind = "OverflowError"
        THEN [raised |-> "OverflowError", rows |-> <<>>]
        ELSE [raised |-> "", rows |-> SortByID(DropDuplicates(stripped))]

\* unidecode of one character
unidecode(c) ==
    CASE c = "U+00E9" -> <<"e">>
      [] c = "U+00DF" -> <<"s", "s">>
      [] c = "U+5317" -> <<"B", "e", "i", " ">>
      [] c = "U+20AC" -> <<"E", "U", "R">>
      [] OTHER -> <<c>>

\* characters kept by re.sub(r'[^A-Za-z0-9 _\-]', '', ...)
AllowedChar == Upper \cup Lower \cup Digit \cup {" ", "_", "-"}

RECURSIVE CollapseSpaces(_)
\* re.sub(r'\s+', ' ', s)
CollapseSpaces(s) ==
    IF s = <<>> THEN <<>>
    ELSE IF Head(s) \in WhiteSpace
    THEN <<" ">> \o CollapseSpaces(LStrip(s))
    ELSE <<Head(s)>> \o CollapseSpaces(Tail(s))

\* sanitise_name without the final truncation
SanitiseNoTruncate(name, max_length) ==
    LET ascii_name == Flatten([i \in DOMAIN name |-> unidecode(name[i])])
        kept == Filter(ascii_name, {i \in DOMAIN ascii_name : ascii_name[i] \in AllowedChar})
    IN  Strip(CollapseSpaces(kept))
sanitise_name(name, max_length) ==
    LET ascii_name == Flatten([i \in DOMAIN name |-> unidecode(name[i])])
        kept == Filter(ascii_name, {i \in DOMAIN ascii_name : ascii_name[i] \in AllowedChar})
        collapsed == Strip(CollapseSpaces(kept))
    IN  IF Len(collapsed) > max_length THEN SliceTo(collapsed, max_length) ELSE collapsed

\* every contact tagged Group Call
CallTypeAlwaysGroup(id) == "Group Call"
CallType(id) == IF id \in PRIVATE_CALL_IDS THEN "Private Call" ELSE "Group Call"

\* convert_to_dm32_format
convert_to_dm32_format(rows, max_length) ==
    [k \in DOMAIN rows |->
        [No |-> k,
         Name |-> sanitise_name(rows[k].Name, max_length),
         ID |-> rows[k].ID,
         Type |-> CallType(rows[k].ID)]]


(***************************************************************************)
(* The normaliser's run: main() of format_BM_talkgroups_to_dm32.py         *)
(***************************************************************************)
SeqsUpTo(S, n) == UNION {[1..k -> S] : k \in 0..n}

\* cells of the Talkgroup/ID column as read from the CSV
IdCells == { NaN,
             <<"9","1">>, <<"9","1",".","0">>, <<" ","7"," ">>,
             <<"9","9","9","0">>, <<"a","b","c">>, <<"i","n","f">> }
\* cells of the Name column as read from the CSV
NameCells == { NaN, <<" ","A","b">>, <<"U+00E9",".","c","d">> }
VendorRows == [ID : IdCells, Name : NameCells]
\* values of --max-length (type=int)
MaxLengths == {-1, 2, 16}

NoFile == [exists |-> FALSE, readable |-> FALSE, columns |-> {}, rows |-> <<>>]
Unreadable == [exists |-> TRUE, readable |-> FALSE, columns |-> {}, rows |-> <<>>]
VendorFiles ==
    {NoFile, Unreadable}
    \cup {[exists |-> TRUE, readable |-> TRUE, columns |-> {"Talkgroup", "Name"}, rows |-> r] :
            r \in SeqsUpTo(VendorRows, MaxRows)}
    \cup {[exists |-> TRUE, readable |-> TRUE, columns |-> c, rows |-> r] :
            c \in {{"ID", "Name"}, {"Name"}, {"Talkgroup"}, {"Country"}},
            r \in SeqsUpTo(VendorRows, 1)}

\* a prompt function has not returned
NotReturned == [kind |-> "none", v |-> 0]

InitOutputs ==
    /\ pc = "start"
    /\ df = <<>>
    /\ tg_list = <<>>
    /\ channels = <<>>
    /\ zone_map = <<>>
    /\ contact_csv = <<>>
    /\ channels_csv = <<>>
    /\ zones_csv = <<>>
    /\ written = {}
    /\ err_msg = FALSE
    /\ exc = ""
    /\ retval = -1

InitCommon ==
    /\ InitOutputs
    /\ answers = <<>>
    /\ console = <<>>
    /\ result = NotReturned

InitNorm ==
    /\ prog = "normaliser"
    /\ file \in VendorFiles
    /\ inp \in [max_length : MaxLengths]
    /\ InitCommon

\* the output file opened for writing before the input is looked at
NormReadAfterOpeningOutput ==
    /\ prog = "normaliser" /\ pc = "start"
    /\ written' = written \cup {"contact"}
    /\ contact_csv' = <<>>
    /\ IF ~file.exists \/ ~file.readable
       THEN /\ err_msg' = TRUE
            /\ retval' = 1
            /\ pc' = "done"
            /\ df' = df
       ELSE /\ df' = file.rows
            /\ pc' = "normalise"
            /\ UNCHANGED <<err_msg, retval>>
    /\ UNCHANGED <<prog, inp, file, tg_list, channels, zone_map,
                   channels_csv, zones_csv, exc>>
    /\ UNCHANGED <<answers, console, result>>

\* lines 184-194: the existence check and pd.read_csv
NormRead ==
    /\ prog = "normaliser" /\ pc = "start"
    /\ IF ~file.exists \/ ~file.readable
       THEN /\ err_msg' = TRUE
            /\ retval' = 1
            /\ pc' = "done"
            /\ df' = df
       ELSE /\ df' = file.rows
            /\ pc' = "normalise"
            /\ UNCHANGED <<err_msg, retval>>
    /\ UNCHANGED <<prog, inp, file, tg_list, channels, zone_map,
                   contact_csv, channels_csv, zones_csv, written, exc>>
    /\ UNCHANGED <<answers, console, result>>

\* line 197: df_norm = normalise_talkgroups(df_raw)
NormNormalise ==
    /\ prog = "normaliser" /\ pc = "normalise"
    /\ LET r == normalise_talkgroups(file.columns, df)
       IN  IF r.raised # ""
           THEN /\ exc' = r.raised
                /\ pc' = "raised"
                /\ df' = df
           ELSE /\ df' = r.rows
                /\ pc' = "convert"
                /\ exc' = exc
    /\ UNCHANGED <<prog, inp, file, tg_list, channels, zone_map,
                   contact_csv, channels_csv, zones_csv, written, err_msg, retval>>
    /\ UNCHANGED <<answers, console, result>>

\* line 200: df_dm32 = convert_to_dm32_format(df_norm, args.max_length)
NormConvert ==
    /\ prog = "normaliser" /\ pc = "convert"
    /\ df' = convert_to_dm32_format(df, inp.max_length)
    /\ pc' = "write"
    /\ UNCHANGED <<prog, inp, file, tg_list, channels, zone_map,
                   contact_csv, channels_csv, zones_csv, written, err_msg, exc, retval>>
    /\ UNCHANGED <<answers, console, result>>

\* lines 207-216: df_dm32.to_csv(output_path, ...); return 0
NormWrite ==
    /\ prog = "normaliser" /\ pc = "write"
    /\ contact_csv' = df
    /\ written' = written \cup {"contact"}
    /\ retval' = 0
    /\ pc' = "done"
    /\ UNCHANGED <<prog, inp, file, df, tg_list, channels, zone_map,
                   channels_csv, zones_csv, err_msg, exc>>
    /\ UNCHANGED <<answers, console, result>>

NextNorm == NormRead \/ NormNormalise \/ NormConvert \/ NormWrite
SpecNorm == InitNorm /\ [][NextNorm]_vars


(***************************************************************************)
(* sanitise_name alone, on every short name over a small alphabet          *)
(***************************************************************************)
NameAlphabet == {"A", "b", "7", " ", "\t", "_", "-", ".", "U+00E9", "U+5317"}
SanMaxLengths == (-2) .. (MaxNameLen + 1)

InitSan ==
    /\ prog = "sanitise_name"
    /\ file = NoFile
    /\ inp \in [name : SeqsUpTo(NameAlphabet, MaxNameLen), max_length : SanMaxLengths]
    /\ InitCommon

\* line 160: the Name column of the contact output for one row
SanApply ==
    /\ prog = "sanitise_name" /\ pc = "start"
    /\ contact_csv' = <<[No |-> 1, Name |-> sanitise_name(inp.name, inp.max_length),
                         ID |-> 0, Type |-> CallType(0)]>>
    /\ written' = {"contact"}
    /\ pc' = "done"
    /\ UNCHANGED <<prog, inp, file, df, tg_list, channels, zone_map,
                   channels_csv, zones_csv, err_msg, exc, retval>>
    /\ UNCHANGED <<answers, console, result>>

NextSan == SanApply
SpecSan == InitSan /\ [][NextSan]_vars

(***************************************************************************)
(* Claims about the normaliser                                             *)
(***************************************************************************)
ContactWritten == prog = "normaliser" /\ "contact" \in written

\* a row that has a Name and an ID convertible to an integer
ValidRow(r) == r.ID # NaN /\ r.Name # NaN /\ IntOfFloatText(r.ID).kind = "int"
IdOf(r) == IntOfFloatText(r.ID).v
FirstValid(rows, i) ==
    /\ ValidRow(rows[i])
    /\ \A j \in 1..(i - 1) : ValidRow(rows[j]) => IdOf(rows[j]) # IdOf(rows[i])

\* C1: in the contact output, for every integer ID of a valid input row there
\* is exactly one row with that ID, and it carries the sanitised Name of the
\* first valid input row with that ID, whatever the textual form of the IDs.
C1_FirstOccurrenceKept ==
    ContactWritten =>
        \A i \in DOMAIN file.rows :
            FirstValid(file.rows, i) =>
                LET outs == {k \in DOMAIN contact_csv : contact_csv[k].ID = IdOf(file.rows[i])}
                IN  /\ Cardinality(outs) = 1
                    /\ \A k \in outs :
                         contact_csv[k].Name =
                             sanitise_name(Strip(file.rows[i].Name), inp.max_length)

\* two valid rows with one integer ID in two textual forms and two names
C1_Witness ==
    /\ ContactWritten
    /\ \E i, j \in DOMAIN file.rows :
         /\ i < j /\ FirstValid(file.rows, i) /\ ValidRow(file.rows[j])
         /\ IdOf(file.rows[i]) = IdOf(file.rows[j])
         /\ file.rows[i].ID # file.rows[j].ID
         /\ sanitise_name(Strip(file.rows[i].Name), inp.max_length)
              # sanitise_name(Strip(file.rows[j].Name), inp.max_length)

\* C2 as claimed: for every name and every integer max_length the Name written
\* to the contact output is pure ASCII and has at most max_length characters.
C2_AsciiAndWithinMaxLength ==
    (prog = "sanitise_name" /\ pc = "done") =>
        /\ \A i \in DOMAIN contact_csv[1].Name : IsAscii(contact_csv[1].Name[i])
        /\ Len(contact_csv[1].Name) <= inp.max_length

\* C2 amended: for every name and every max_length >= 0 the Name written to the
\* contact output is pure ASCII and has at most max_length characters; for a
\* negative max_length it is still pure ASCII.
C2_AsciiAndWithinNonNegativeMaxLength ==
    (prog = "sanitise_name" /\ pc = "done") =>
        /\ \A i \in DOMAIN contact_csv[1].Name : IsAscii(contact_csv[1].Name[i])
        /\ inp.max_length >= 0 => Len(contact_csv[1].Name) <= inp.max_length

\* a name with a non-ASCII character that is cut by the truncation
C2_Witness ==
    /\ prog = "sanitise_name" /\ pc = "done"
    /\ \E i \in DOMAIN inp.name : ~IsAscii(inp.name[i])
    /\ inp.max_length >= 1
    /\ Len(contact_csv[1].Name) = inp.max_length
    /\ Len(inp.name) > inp.max_length

\* C3: the contact output has as many rows as there are distinct integer IDs
\* among the valid input rows.
C3_RowCountIsDistinctValidIds ==
    ContactWritten =>
        Len(contact_csv)
            = Cardinality({IdOf(file.rows[i]) :
                             i \in {j \in DOMAIN file.rows : ValidRow(file.rows[j])}})

\* two valid input rows with one integer ID give one output row
C3_Witness ==
    /\ ContactWritten
    /\ Len(contact_csv) = 1
    /\ Len(file.rows) = 2
    /\ \A i \in DOMAIN file.rows : ValidRow(file.rows[i])

\* C5: in the contact output the IDs are strictly ascending (hence pairwise
\* distinct) and the No. of the k-th row is k.
C5_AscendingIdsAndNumbering ==
    ContactWritten =>
        \A k \in DOMAIN contact_csv :
            /\ contact_csv[k].No = k
            /\ k > 1 => contact_csv[k - 1].ID < contact_csv[k].ID

\* an input whose valid rows come in descending ID order
C5_Witness ==
    /\ ContactWritten
    /\ Len(contact_csv) >= 2
    /\ \E i, j \in DOMAIN file.rows :
         /\ i < j /\ ValidRow(file.rows[i]) /\ ValidRow(file.rows[j])
         /\ IdOf(file.rows[i]) > IdOf(file.rows[j])

\* the run on the file as it would be without its invalid rows
OutputWithoutInvalidRows ==
    LET rows == file.rows
        valid == Filter(rows, {i \in DOMAIN rows : ValidRow(rows[i])})
    IN  convert_to_dm32_format(normalise_talkgroups(file.columns, valid).rows,
                               inp.max_length)

\* C6: a readable file with its ID and Name columns never makes the run fail,
\* whatever rows it holds: every row with a missing ID, a missing Name or an ID
\* that is no integer is left out, the run returns 0 and the output is that
\* of the same file without those rows.
C6_InvalidRowsAreSkipped ==
    (/\ prog = "normaliser" /\ pc \in {"done", "raised"}
     /\ file.exists /\ file.readable
     /\ file.columns \in {{"Talkgroup", "Name"}, {"ID", "Name"}})
    => /\ pc = "done" /\ retval = 0
       /\ contact_csv = OutputWithoutInvalidRows

\* C9: a contact row has Type "Private Call" exactly when its ID is 9990 or
\* 9998, and "Group Call" otherwise.
C9_PrivateCallIffListed ==
    ContactWritten =>
        \A k \in DOMAIN contact_csv :
            /\ contact_csv[k].Type \in {"Private Call", "Group Call"}
            /\ contact_csv[k].Type = "Private Call" <=> contact_csv[k].ID \in {9990, 9998}

\* an output with a private call row and a group call row
C9_Witness ==
    /\ ContactWritten
    /\ \E k \in DOMAIN contact_csv : contact_csv[k].Type = "Private Call"
    /\ \E k \in DOMAIN contact_csv : contact_csv[k].Type = "Group Call"


(***************************************************************************)
(* generate_dm32_channels_zones.py: static tables                          *)
(***************************************************************************)
\* frs_channels with rx = tx = f"{freq:.5f}"
frs_channels == <<
    <<1, "462.56250">>,
    <<2, "462.58750">>,
    <<3, "462.61250">>,
    <<4, "462.63750">>,
    <<5, "462.66250">>,
    <<6, "462.68750">>,
    <<7, "462.71250">>,
    <<8, "467.56250">>,
    <<9, "467.58750">>,
    <<10, "467.61250">>,
    <<11, "467.63750">>,
    <<12, "467.66250">>,
    <<13, "467.68750">>,
    <<14, "467.71250">>,
    <<15, "462.55000">>,
    <<16, "462.57500">>,
    <<17, "462.60000">>,
    <<18, "462.62500">>,
    <<19, "462.65000">>,
    <<20, "462.67500">>,
    <<21, "462.70000">>,
    <<22, "462.72500">> >>
\* air_freqs with f"{freq:.3f}"
air_freqs == <<
    <<<<"1","2","1",".","5"," ","E","m","e","r","g","e","n","c","y">>, "121.500">>,
    <<<<"1","2","2",".","7","5"," ","A","i","r","-","t","o","-","A","i","r">>, "122.750">>,
    <<<<"1","2","2",".","8"," ","U","n","i","c","o","m">>, "122.800">>,
    <<<<"1","2","3",".","0"," ","U","n","i","c","o","m">>, "123.000">>,
    <<<<"1","2","3",".","0","2","5"," ","H","e","l","i","c","o","p","t","e","r">>, "123.025">>,
    <<<<"1","2","3",".","4","5"," ","A","i","r","-","t","o","-","A","i","r">>, "123.450">>,
    <<<<"1","2","3",".","1"," ","S","A","R">>, "123.100">> >>
marine == <<
    <<<<"M","a","r","i","n","e"," ","C","h","1","6"," ","D","i","s","t","r","e","s","s">>, "156.800">>,
    <<<<"M","a","r","i","n","e"," ","C","h","1","3"," ","N","a","v">>, "156.650">>,
    <<<<"M","a","r","i","n","e"," ","C","h","0","9"," ","C","a","l","l","i","n","g">>, "156.450">>,
    <<<<"M","a","r","i","n","e"," ","C","h","2","2","A"," ","U","S","C","G">>, "157.100">> >>
ham_calls == <<
    <<<<"2","m"," ","C","a","l","l","i","n","g">>, "146.520">>,
    <<<<"7","0","c","m"," ","C","a","l","l","i","n","g">>, "446.000">>,
    <<<<"1",".","2","5","m"," ","C","a","l","l","i","n","g">>, "223.500">>,
    <<<<"6","m"," ","C","a","l","l","i","n","g">>, "50.125">>,
    <<<<"1","0","m"," ","F","M"," ","C","a","l","l","i","n","g">>, "29.600">> >>
murs_channels == <<
    <<1, "151.820">>,
    <<2, "151.880">>,
    <<3, "151.940">>,
    <<4, "154.570">>,
    <<5, "154.600">> >>
noaa_freqs == << "162.400", "162.425", "162.450", "162.475", "162.500", "162.525", "162.550" >>
popular_tgs == <<
    <<<<"W","o","r","l","d","w","i","d","e">>, 91>>,
    <<<<"N","o","r","t","h"," ","A","m","e","r","i","c","a">>, 93>>,
    <<<<"U","S","A"," ","B","r","i","d","g","e">>, 3100>>,
    <<<<"A","m","e","r","i","c","a"," ","L","i","n","k">>, 31656>>,
    <<<<"S","k","y","H","u","b"," ","L","i","n","k">>, 310847>>,
    <<<<"M","i","d","w","e","s","t"," ","R","e","g","i","o","n","a","l">>, 3169>>,
    <<<<"N","o","r","t","h","e","a","s","t"," ","R","e","g","i","o","n","a","l">>, 3172>>,
    <<<<"M","i","d","A","t","l","a","n","t","i","c"," ","R","e","g","i","o","n","a","l">>, 3173>>,
    <<<<"T","X","-","O","K"," ","R","e","g","i","o","n","a","l">>, 3175>>,
    <<<<"S","o","u","t","h","w","e","s","t"," ","R","e","g","i","o","n","a","l">>, 3176>>,
    <<<<"M","o","u","n","t","a","i","n"," ","R","e","g","i","o","n","a","l">>, 3177>>,
    <<<<"F","i","r","s","t"," ","C","o","a","s","t">>, 31121>>,
    <<<<"T","A","C"," ","3","1","0">>, 310>>,
    <<<<"T","A","C"," ","3","1","1">>, 311>>,
    <<<<"T","A","C"," ","3","1","2">>, 312>>,
    <<<<"T","A","C"," ","3","1","3">>, 313>>,
    <<<<"T","A","C"," ","3","1","4">>, 314>>,
    <<<<"T","A","C"," ","3","1","5">>, 315>>,
    <<<<"T","A","C"," ","3","1","6">>, 316>>,
    <<<<"T","A","C"," ","3","1","7">>, 317>>,
    <<<<"T","A","C"," ","3","1","8">>, 318>>,
    <<<<"T","A","C"," ","3","1","9">>, 319>>,
    <<<<"J","O","T","A">>, 907>>,
    <<<<"P","O","T","A">>, 3181>>,
    <<<<"S","O","T","A">>, 973>>,
    <<<<"P","a","r","r","o","t">>, 9990>> >>
repeaters == <<
    [name |-> <<"K","E","8","I","L"," ","U","H","F">>, rx |-> "444.80000", tx |-> "449.80000", ctcss |-> <<"1","0","0",".","0">>],
    [name |-> <<"K","8","L","O","D"," ","U","H","F">>, rx |-> "443.45000", tx |-> "448.45000", ctcss |-> <<"1","0","0",".","0">>],
    [name |-> <<"K","8","L","O","D"," ","V","H","F">>, rx |-> "147.27000", tx |-> "147.87000", ctcss |-> <<"1","0","0",".","0">>],
    [name |-> <<"K","E","8","I","L"," ","2","M">>, rx |-> "146.97000", tx |-> "146.37000", ctcss |-> <<"1","0","0",".","0">>] >>
\* (pattern between its two \b, lower-cased for re.IGNORECASE; replacement)
substitutions == <<
    <<<<"n","o","r","t","h","\\s+","a","m","e","r","i","c","a">>, <<"N"," ","A","m","e","r","i">>>>,
    <<<<"s","o","u","t","h","\\s+","a","m","e","r","i","c","a">>, <<"S"," ","A","m","e","r","i">>>>,
    <<<<"n","o","r","t","h">>, <<"N">>>>,
    <<<<"s","o","u","t","h">>, <<"S">>>>,
    <<<<"a","m","e","r","i","c","a">>, <<"A","m","e","r">>>>,
    <<<<"a","u","s","t","r","a","l","i","a">>, <<"A","u","s","t">>>>,
    <<<<"n","e","w"," ","z","e","a","l","a","n","d">>, <<"N","Z">>>>,
    <<<<"u","n","i","t","e","d">>, <<"U">>>>,
    <<<<"k","i","n","g","d","o","m">>, <<"K">>>>,
    <<<<"r","e","p","u","b","l","i","c">>, <<"R","e","p">>>>,
    <<<<"d","o","m","i","n","i","c","a","n">>, <<"D","o","m">>>>,
    <<<<"a","n","d">>, <<"&">>>>,
    <<<<"a","n","d">>, <<"&">>>> >>


(***************************************************************************)
(* generate_dm32_channels_zones.py: channel dicts and builders             *)
(*                                                                         *)
(* A channel dict is a record with every field; keys is the set of keys    *)
(* the dict really has, and Get is dict.get.                               *)
(***************************************************************************)
AnalogKeys == {"name", "rx", "tx", "type", "power", "bandwidth", "ctcss"}
DigitalKeys == {"name", "rx", "tx", "type", "power", "bandwidth",
                "color", "slot", "tg_name", "tg_id"}

AnalogChannel(name, rx, tx, power, bandwidth, ctcss) ==
    [keys |-> AnalogKeys, name |-> name, rx |-> rx, tx |-> tx, type |-> "Analog",
     power |-> power, bandwidth |-> bandwidth, ctcss |-> ctcss,
     color |-> 0, slot |-> "", tg_name |-> <<>>, tg_id |-> 0]
DigitalChannel(name, rx, tx, power, bandwidth, color, slot, tg_name, tg_id) ==
    [keys |-> DigitalKeys, name |-> name, rx |-> rx, tx |-> tx, type |-> "Digital",
     power |-> power, bandwidth |-> bandwidth, ctcss |-> None,
     color |-> color, slot |-> slot, tg_name |-> tg_name, tg_id |-> tg_id]
Get(ch, key, default) == IF key \in ch.keys THEN ch[key] ELSE default

\* f"{n:02d}"
TwoDigits(n) == IF n < 10 THEN <<"0">> \o NatStr(n) ELSE NatStr(n)

build_frs_gmrs_channels ==
    [i \in DOMAIN frs_channels |->
        AnalogChannel(<<"G","M","R","S","/","F","R","S"," ">> \o TwoDigits(frs_channels[i][1]),
                      frs_channels[i][2], frs_channels[i][2], "High", "12.5KHz", None)]
build_airband_channels ==
    [i \in DOMAIN air_freqs |->
        AnalogChannel(<<"A","i","r"," ">> \o air_freqs[i][1],
                      air_freqs[i][2], air_freqs[i][2], "High", "25KHz", None)]
build_marine_channels ==
    [i \in DOMAIN marine |->
        AnalogChannel(marine[i][1], marine[i][2], marine[i][2], "High", "25KHz", None)]
build_ham_call_channels ==
    [i \in DOMAIN ham_calls |->
        AnalogChannel(ham_calls[i][1], ham_calls[i][2], ham_calls[i][2],
                      "High", "12.5KHz", None)]
build_murs_channels ==
    [i \in DOMAIN murs_channels |->
        AnalogChannel(<<"M","U","R","S"," ">> \o NatStr(murs_channels[i][1]),
                      murs_channels[i][2], murs_channels[i][2], "High", "12.5KHz", None)]
build_noaa_weather_channels ==
    [i \in DOMAIN noaa_freqs |->
        AnalogChannel(<<"N","O","A","A"," ","W","X"," ">> \o NatStr(i),
                      noaa_freqs[i], noaa_freqs[i], "High", "25KHz", None)]
build_analog_repeaters ==
    [i \in DOMAIN repeaters |->
        AnalogChannel(repeaters[i].name, repeaters[i].rx, repeaters[i].tx,
                      "High", "12.5KHz", repeaters[i].ctcss)]

\* build_dmr_repeater: tg1 = ("U.P.TG", 31268, "Slot 2"), tg2 = ("KB0P Open", 1, "Slot 1")
build_dmr_repeater ==
    LET name_base == <<"K","B","0","P"," ","D","M","R">>
        tgs == << <<<<"U",".","P",".","T","G">>, 31268, "Slot 2">>,
                  <<<<"K","B","0","P"," ","O","p","e","n">>, 1, "Slot 1">> >>
    IN  [i \in DOMAIN tgs |->
            DigitalChannel(IF tgs[i][1] # <<"K","B","0","P"," ","O","p","e","n">>
                           THEN name_base \o <<" ">> \o tgs[i][1]
                           ELSE name_base \o <<" ","L","o","c","a","l">>,
                           "442.20000", "447.20000", "High", "12.5KHz",
                           1, tgs[i][3], tgs[i][1], tgs[i][2])]

(***************************************************************************)
(* abbreviate_name: re.sub with \b...\b patterns, re.IGNORECASE            *)
(***************************************************************************)
\* \w of a Python 3 str pattern
WordChar == Upper \cup Lower \cup Digit \cup {"_", "U+00E9", "U+00DF", "U+5317"}
\* \b between s[i-1] and s[i]
Boundary(s, i) ==
    LET before == i - 1 \in DOMAIN s /\ s[i - 1] \in WordChar
        after == i \in DOMAIN s /\ s[i] \in WordChar
    IN  before # after

RECURSIVE MatchEnd(_, _, _, _)
\* the position after a match of pat[k..] at s[i..], or -1
MatchEnd(s, i, pat, k) ==
    IF k > Len(pat) THEN i
    ELSE IF i \notin DOMAIN s THEN -1
    ELSE IF pat[k] = "\\s+"
    THEN IF s[i] \in WhiteSpace
         THEN MatchEnd(s, Len(s) + 1 - Len(LStrip(SubSeq(s, i, Len(s)))), pat, k + 1)
         ELSE -1
    ELSE IF ToLower(s[i]) = pat[k] THEN MatchEnd(s, i + 1, pat, k + 1)
    ELSE -1

RECURSIVE SubFrom(_, _, _, _)
SubFrom(s, i, pat, repl) ==
    IF i > Len(s) THEN <<>>
    ELSE LET e == IF Boundary(s, i) THEN MatchEnd(s, i, pat, 1) ELSE -1
         IN  IF e # -1 /\ Boundary(s, e)
             THEN repl \o SubFrom(s, e, pat, repl)
             ELSE <<s[i]>> \o SubFrom(s, i + 1, pat, repl)
\* re.sub(r"\b" + pat + r"\b", repl, s, flags=re.IGNORECASE)
RegexSub(s, pat, repl) == SubFrom(s, 1, pat, repl)

RECURSIVE ApplySubstitutions(_, _)
ApplySubstitutions(s, k) ==
    IF k > Len(substitutions) THEN s
    ELSE ApplySubstitutions(RegexSub(s, substitutions[k][1], substitutions[k][2]), k + 1)

\* the name with its spaces collapsed and no word replaced
NoAbbreviation(name) == Strip(CollapseSpaces(name))
abbreviate_name(name) == Strip(CollapseSpaces(ApplySubstitutions(name, 1)))

\* the channel name of a talkgroup: abbreviation, and the ID when asked for
\* (id_str is str(tg_id))
NameWithId(name, id_str, include_id) ==
    LET abbr == abbreviate_name(name)
        max_name_len == Max(1, 16 - Len(id_str) - 1)
    IN  IF include_id THEN SliceTo(abbr, max_name_len) \o <<" ">> \o id_str
        ELSE SliceTo(abbr, 16)
TgChannelName(name, tg_id, include_id) == NameWithId(name, IntStr(tg_id), include_id)

\* lines 285-293: the channel names of the popular talkgroups
PopularNames ==
    [include_id \in BOOLEAN |->
        [i \in DOMAIN popular_tgs |->
            TgChannelName(popular_tgs[i][1], popular_tgs[i][2], include_id)]]

build_popular_talkgroups(hotspot_rx, hotspot_tx, include_id) ==
    [i \in DOMAIN popular_tgs |->
        DigitalChannel(PopularNames[include_id][i],
                       hotspot_rx, hotspot_tx, "Middle", "12.5KHz", 1, "Slot 2",
                       <<"F","a","v"," ">> \o popular_tgs[i][1], popular_tgs[i][2])]

(***************************************************************************)
(* CSV writers                                                             *)
(***************************************************************************)
\* sanitise_channel_name(name, max_len=16)
sanitise_channel_name(name) == SliceTo(name, 16)

\* csv.DictWriter writes None as the empty string
CsvCell(v) == IF v = None THEN <<>> ELSE v

\* write_channels_csv: the columns that depend on the channel (the other
\* columns hold the same literal on every row)
write_channels_csv(chs, dmr_id) ==
    [idx \in DOMAIN chs |->
        LET ch == chs[idx]
        IN  [No |-> idx,
             ChannelName |-> sanitise_channel_name(ch.name),
             ChannelType |-> Get(ch, "type", "Analog"),
             RX |-> ch.rx,
             TX |-> ch.tx,
             Power |-> Get(ch, "power", "High"),
             BandWidth |-> Get(ch, "bandwidth", "12.5KHz"),
             TXAdmit |-> IF Get(ch, "type", "Analog") = "Digital" THEN "Always" ELSE "Allow TX",
             APRSReportType |-> IF Get(ch, "type", "") = "Digital" THEN "Digital" ELSE "Off",
             APRSReceive |-> IF Get(ch, "type", "") = "Digital" THEN "1" ELSE "0",
             TXContact |-> Get(ch, "tg_name", <<"N","o","n","e">>),
             ColorCode |-> IntStr(Get(ch, "color", 0)),
             TimeSlot |-> Get(ch, "slot", "Slot 1"),
             DMRID |-> dmr_id,
             CTCDecode |-> CsvCell(Get(ch, "ctcss", <<"N","o","n","e">>)),
             CTCEncode |-> CsvCell(Get(ch, "ctcss", <<"N","o","n","e">>))]]

\* write_zones_csv: one row per zone, in the dict's order; Channel Members
\* is "|".join(ch_names), kept here as the list of names
\* sep.join(parts[:n])
RECURSIVE JoinUpTo(_, _, _)
JoinUpTo(parts, sep, n) ==
    IF n = 0 THEN <<>>
    ELSE IF n = 1 THEN parts[1]
    ELSE JoinUpTo(parts, sep, n - 1) \o <<sep>> \o parts[n]
\* sep.join(parts)
Join(parts, sep) == JoinUpTo(parts, sep, Len(parts))

\* write_zones_csv: one row per zone, the members joined with "|"
write_zones_csv(zm) ==
    [idx \in DOMAIN zm |-> [No |-> idx, ZoneName |-> zm[idx].zone,
                            Members |-> Join(zm[idx].members, "|")]]

\* the files are opened with encoding="ascii": the rows that reach the file
\* before a character that cannot be encoded stops the writer
IsAsciiText(t) == \A i \in DOMAIN t : IsAscii(t[i])
EncodableChannel(ch) ==
    /\ IsAsciiText(ch.name)
    /\ IsAsciiText(Get(ch, "tg_name", None))
    /\ IsAsciiText(Get(ch, "ctcss", None))
EncodableRows(chs, dmr_id) ==
    IF ~IsAsciiText(dmr_id) THEN 0
    ELSE IF \A i \in DOMAIN chs : EncodableChannel(chs[i]) THEN Len(chs)
    ELSE (CHOOSE i \in DOMAIN chs : /\ ~EncodableChannel(chs[i])
                                    /\ \A j \in 1..(i - 1) : EncodableChannel(chs[j])) - 1

\* zone_map[zone] = members on an insertion-ordered dict
DictSet(zm, zone, members) ==
    IF \E i \in DOMAIN zm : zm[i].zone = zone
    THEN [i \in DOMAIN zm |-> IF zm[i].zone = zone
                              THEN [zone |-> zone, members |-> members] ELSE zm[i]]
    ELSE Append(zm, [zone |-> zone, members |-> members])

\* [sanitise_channel_name(ch["name"]) for ch in chs]
ZoneNames(chs) == [i \in DOMAIN chs |-> sanitise_channel_name(chs[i].name)]


(***************************************************************************)
(* load_talkgroups                                                         *)
(***************************************************************************)
\* characters of the class [A-Za-z0-9 .&/-]
FilterChar == Upper \cup Lower \cup Digit \cup {" ", ".", "&", "/", "-"}
\* a filter that keeps every name that is present
AcceptEveryName(name) == name # NaN
\* df["Name"].str.contains(r"^[A-Za-z0-9 .&/-]+$", regex=True, na=False)
\* ($ also matches just before a newline that ends the text)
PassesNameFilter(name) ==
    /\ name # NaN
    /\ name # <<>>
    /\ LET body == IF name[Len(name)] = "\n" THEN SubSeq(name, 1, Len(name) - 1) ELSE name
       IN  /\ body # <<>>
           /\ \A i \in DOMAIN body : body[i] \in FilterChar

\* every order sort_values(by="ID") may leave the rows in (rows with equal
\* IDs in any order: the default sort is not stable)
SortedOrders(rows) ==
    LET n == Len(rows)
        perms == {f \in [1..n -> 1..n] : \A i, j \in 1..n : i # j => f[i] # f[j]}
    IN  {[i \in 1..n |-> rows[f[i]]] :
            f \in {g \in perms : \A i \in 1..(n - 1) : rows[g[i]].ID <= rows[g[i + 1]].ID}}

\* df.tail(count) in place of df.head(count)
TailRows(rows, count) ==
    IF count >= 0 THEN SubSeq(rows, Len(rows) - Min(count, Len(rows)) + 1, Len(rows))
    ELSE SubSeq(rows, Min(-count, Len(rows)) + 1, Len(rows))
\* df.head(count): the first count rows, all but the last |count| when negative
HeadRows(rows, count) == SliceTo(rows, count)

\* load_talkgroups(path, count): the exception raised, or every list of
\* (name, id) the call may return
load_talkgroups(f, count) ==
    IF ~f.readable THEN [raised |-> "ParserError", lists |-> {}]
    ELSE IF ~({"Name", "ID"} \subseteq f.columns) THEN [raised |-> "KeyError", lists |-> {}]
    ELSE IF f.rows # <<>> /\ \A i \in DOMAIN f.rows : f.rows[i].Name = NaN
    THEN [raised |-> "AttributeError", lists |-> {}]
    ELSE LET kept == Filter(f.rows, {i \in DOMAIN f.rows : PassesNameFilter(f.rows[i].Name)})
         IN  [raised |-> "",
              lists |-> {LET h == HeadRows(sorted, count)
                         IN  [i \in DOMAIN h |-> <<h[i].Name, h[i].ID>>] :
                            sorted \in SortedOrders(kept)}]

(***************************************************************************)
(* The generator's run: main() of generate_dm32_channels_zones.py          *)
(***************************************************************************)
\* int(text)
PyInt(t) ==
    LET u == Strip(t)
        signed == u # <<>> /\ u[1] \in {"+", "-"}
        body == IF signed THEN Tail(u) ELSE u
    IN  IF body # <<>> /\ IsDigits(body)
        THEN [kind |-> "int", v |-> IF u[1] = "-" THEN -DigitsVal(body) ELSE DigitsVal(body)]
        ELSE [kind |-> "ValueError", v |-> 0]

\* x or default, for texts
OrDefault(x, default) == IF x = <<>> \/ x = None THEN default ELSE x

TgNameCells == { NaN, <<"N","o","r","t","h"," ","A","m","e","r","i","c","a">>, <<"a","_","b">>, <<"F","a","v"," ","P","O","T","A">> }
TgIds == {93, 7}
TgRows == [Name : TgNameCells, ID : TgIds]
TgFiles ==
    {NoFile, Unreadable}
    \cup {[exists |-> TRUE, readable |-> TRUE, columns |-> {"No.", "Name", "ID", "Type"},
           rows |-> r] : r \in SeqsUpTo(TgRows, MaxTgRows)}
    \cup {[exists |-> TRUE, readable |-> TRUE, columns |-> c, rows |-> <<>>] :
            c \in {{"Name"}, {"Talkgroup", "Name"}}}

TgPath == <<"t","g",".","c","s","v">>
DefaultTgPath == <<"D","M","3","2","_","f","o","r","m","a","t","t","e","d","_","a","s","c","i","i",".","c","s","v">>
DefaultDmrId == <<"1","2","3","4","5","6","7">>
\* values of --pi-star-count (type=int, default 150)
Counts == {-1, 0, 1, 150}
\* answers to the talkgroup-count prompt
CountAnswers == { <<>>, <<"1">>, <<"-","1">>, <<"x">> }

GenArgs(talkgroups, no_interactive, count, no_id, ans_path, ans_count, ans_dmr) ==
    [talkgroups |-> talkgroups, no_interactive |-> no_interactive,
     pi_star_count |-> count, dmr_id |-> DefaultDmrId, no_tg_id_in_name |-> no_id,
     ans_path |-> ans_path, ans_count |-> ans_count, ans_dmr |-> ans_dmr]

\* command lines and prompt answers; an answer is empty where no prompt is shown
GenInputs ==
    {GenArgs(TgPath, TRUE, c, n, <<>>, <<>>, <<>>) : c \in Counts, n \in BOOLEAN}
    \cup {GenArgs(None, TRUE, 150, FALSE, <<>>, <<>>, <<>>)}
    \cup {GenArgs(TgPath, FALSE, 150, n, <<>>, a, <<>>) : a \in CountAnswers, n \in BOOLEAN}
    \cup {GenArgs(TgPath, FALSE, 150, FALSE, <<>>, <<>>, d) :
            d \in {<<"K","E","8">>, <<"U+00E9">>}}
    \cup {GenArgs(None, FALSE, 150, FALSE, p, <<>>, <<>>) : p \in {<<>>, TgPath}}

InitGen ==
    /\ prog = "generator"
    /\ inp \in GenInputs
    /\ file \in IF inp.no_interactive /\ inp.talkgroups = None THEN {NoFile} ELSE TgFiles
    /\ InitCommon

\* lines 595-601: the prompts of an interactive run
GenPrompt ==
    /\ prog = "generator" /\ pc = "start"
    /\ IF inp.no_interactive
       THEN /\ pc' = "validate"
            /\ UNCHANGED <<inp, exc>>
       ELSE LET tg == IF OrDefault(inp.talkgroups, <<>>) = <<>>
                      THEN OrDefault(inp.ans_path, DefaultTgPath)
                      ELSE inp.talkgroups
                cnt == IF inp.ans_count = <<>>
                       THEN [kind |-> "int", v |-> inp.pi_star_count]
                       ELSE PyInt(inp.ans_count)
            IN  IF cnt.kind # "int"
                THEN /\ exc' = cnt.kind
                     /\ pc' = "raised"
                     /\ inp' = [inp EXCEPT !.talkgroups = tg]
                ELSE /\ inp' = [inp EXCEPT !.talkgroups = tg,
                                           !.pi_star_count = cnt.v,
                                           !.dmr_id = OrDefault(inp.ans_dmr, inp.dmr_id)]
                     /\ pc' = "validate"
                     /\ exc' = exc
    /\ UNCHANGED <<prog, file, df, tg_list, channels, zone_map, contact_csv,
                   channels_csv, zones_csv, written, err_msg, retval>>
    /\ UNCHANGED <<answers, console, result>>

\* lines 603-606: the talkgroup path is validated
GenValidate ==
    /\ prog = "generator" /\ pc = "validate"
    /\ IF OrDefault(inp.talkgroups, <<>>) = <<>> \/ ~file.exists
       THEN /\ err_msg' = TRUE
            /\ retval' = 1
            /\ pc' = "done"
       ELSE /\ pc' = "load"
            /\ UNCHANGED <<err_msg, retval>>
    /\ UNCHANGED <<prog, inp, file, df, tg_list, channels, zone_map, contact_csv,
                   channels_csv, zones_csv, written, exc>>
    /\ UNCHANGED <<answers, console, result>>

\* lines 608-609: tg_list = load_talkgroups(args.talkgroups, args.pi_star_count)
GenLoad ==
    /\ prog = "generator" /\ pc = "load"
    /\ LET r == load_talkgroups(file, inp.pi_star_count)
       IN  IF r.raised # ""
           THEN /\ exc' = r.raised
                /\ pc' = "raised"
                /\ tg_list' = tg_list
           ELSE /\ tg_list' \in r.lists
                /\ pc' = "build"
                /\ exc' = exc
    /\ UNCHANGED <<prog, inp, file, df, channels, zone_map, contact_csv,
                   channels_csv, zones_csv, written, err_msg, retval>>
    /\ UNCHANGED <<answers, console, result>>

HotspotFreq == "430.00000"

\* lines 611-710: the channel list
GenChannels(tgs, no_tg_id_in_name) ==
    build_analog_repeaters
    \o build_dmr_repeater
    \o [i \in DOMAIN tgs |->
          DigitalChannel(TgChannelName(tgs[i][1], tgs[i][2], ~no_tg_id_in_name),
                         HotspotFreq, HotspotFreq, "Middle", "12.5KHz", 1, "Slot 2",
                         tgs[i][1], tgs[i][2])]
    \o build_frs_gmrs_channels
    \o build_airband_channels
    \o build_marine_channels
    \o build_ham_call_channels
    \o build_noaa_weather_channels
    \o build_murs_channels
    \o build_popular_talkgroups(HotspotFreq, HotspotFreq, ~no_tg_id_in_name)

\* str.startswith
StartsWith(t, prefix) == Len(t) >= Len(prefix) /\ SubSeq(t, 1, Len(prefix)) = prefix

\* lines 721-730 (generator) and 400-413 (builder): the members of the
\* talkgroup zone; with_fav adds the builder's startswith("Fav ") test
TalkgroupZoneMembers(chs, tgs, rx, tx, with_fav) ==
    LET imported == {tgs[i][1] : i \in DOMAIN tgs}
        fav == <<"F","a","v"," ">>
        sel == {i \in DOMAIN chs :
                  /\ Get(chs[i], "type", "") = "Digital"
                  /\ chs[i].rx = rx /\ chs[i].tx = tx
                  /\ \/ Get(chs[i], "tg_name", None) \in imported
                     \/ /\ with_fav
                        /\ StartsWith(Get(chs[i], "tg_name", <<"N","o","n","e">>), fav)}
    IN  ZoneNames(Filter(chs, sel))

\* lines 712-746: the zone map
GenZoneMap(chs, tgs, no_tg_id_in_name) ==
    LET z1 == DictSet(<<>>, "Analog Repeaters", ZoneNames(build_analog_repeaters))
        z2 == DictSet(z1, "KB0P DMR", ZoneNames(build_dmr_repeater))
        z3 == DictSet(z2, "Pi-Star",
                      TalkgroupZoneMembers(chs, tgs, HotspotFreq, HotspotFreq, FALSE))
        z4 == DictSet(z3, "GMRS/FRS", ZoneNames(build_frs_gmrs_channels))
        z5 == DictSet(z4, "Air Band", ZoneNames(build_airband_channels))
        z6 == DictSet(z5, "Marine", ZoneNames(build_marine_channels))
        z7 == DictSet(z6, "Ham Calls", ZoneNames(build_ham_call_channels))
        z8 == DictSet(z7, "NOAA", ZoneNames(build_noaa_weather_channels))
        z9 == DictSet(z8, "MURS", ZoneNames(build_murs_channels))
    IN  DictSet(z9, "Popular TGs",
                ZoneNames(build_popular_talkgroups(HotspotFreq, HotspotFreq,
                                                   ~no_tg_id_in_name)))

\* lines 611-746: channels and zone_map are built
GenBuild ==
    /\ prog = "generator" /\ pc = "build"
    /\ channels' = GenChannels(tg_list, inp.no_tg_id_in_name)
    /\ zone_map' = GenZoneMap(channels', tg_list, inp.no_tg_id_in_name)
    /\ pc' = "write"
    /\ UNCHANGED <<prog, inp, file, df, tg_list, contact_csv,
                   channels_csv, zones_csv, written, err_msg, exc, retval>>
    /\ UNCHANGED <<answers, console, result>>

\* lines 748-755: both files are written, return 0
GenWrite ==
    /\ prog = "generator" /\ pc = "write"
    /\ LET n == EncodableRows(channels, inp.dmr_id)
       IN  IF n < Len(channels)
           THEN /\ channels_csv' = SubSeq(write_channels_csv(channels, inp.dmr_id), 1, n)
                /\ written' = written \cup {"channels"}
                /\ exc' = "UnicodeEncodeError"
                /\ pc' = "raised"
                /\ UNCHANGED <<zones_csv, retval>>
           ELSE /\ channels_csv' = write_channels_csv(channels, inp.dmr_id)
                /\ zones_csv' = write_zones_csv(zone_map)
                /\ written' = written \cup {"channels", "zones"}
                /\ retval' = 0
                /\ pc' = "done"
                /\ exc' = exc
    /\ UNCHANGED <<prog, inp, file, df, tg_list, channels, zone_map, contact_csv, err_msg>>
    /\ UNCHANGED <<answers, console, result>>

NextGen == GenPrompt \/ GenValidate \/ GenLoad \/ GenBuild \/ GenWrite
SpecGen == InitGen /\ [][NextGen]_vars


(***************************************************************************)
(* The interactive builder's run: main() of interactive_dm32_builder.py    *)
(*                                                                         *)
(* inp holds what the prompts return; a frequency is held as the text      *)
(* f"{freq:.5f}" that main() makes of it.                                  *)
(***************************************************************************)
\* prompt_dmr_repeater: the two channels made from the answers
prompt_dmr_repeater(a) ==
    LET tgs == << <<a.tg1_name, a.tg1_id, "Slot 1">>, <<a.tg2_name, a.tg2_id, "Slot 2">> >>
    IN  [i \in DOMAIN tgs |->
            LET parsed == PyInt(tgs[i][2])
                tg_id_int == IF parsed.kind = "int" THEN parsed.v ELSE 0
            IN  DigitalChannel(IF tg_id_int # 0
                               THEN a.base_name \o <<" ">> \o tgs[i][1]
                               ELSE a.base_name \o <<" ","L","o","c","a","l">>,
                               a.rx, a.tx, "High", "12.5KHz", a.color, tgs[i][3],
                               tgs[i][1], IF tg_id_int # 0 THEN tg_id_int ELSE 1)]

\* answers to prompt_dmr_repeater: a repeater on 442.2 MHz with TG 31268 on
\* slot 1 and an open slot 2
DmrAnswers ==
    [base_name |-> <<"D","M","R"," ","R","e","p","e","a","t","e","r">>, rx |-> "442.20000", tx |-> "442.20000",
     color |-> 1, tg1_id |-> <<"3","1","2","6","8">>, tg1_name |-> <<"T","G"," ","3","1","2","6","8">>,
     tg2_id |-> <<"0">>, tg2_name |-> <<"L","o","c","a","l">>]

\* one analog repeater as prompt_repeater returns it
LongRepeater ==
    [name |-> <<"M","y"," ","R","e","p","e","a","t","e","r"," ","W","i","t","h"," ","L","o","n","g"," ","N","a","m","e">>, rx |-> "146.52000", tx |-> "146.52000",
     ctcss |-> <<"1","0","0",".","0">>]

\* a repeater whose name holds the character that separates zone members
PipeRepeater ==
    [name |-> <<"H","i","l","l","|","T","o","p">>, rx |-> "146.94000", tx |-> "146.34000",
     ctcss |-> <<"8","8",".","5">>]

\* the six category answers: frs, murs, air, marine, ham, noaa
CategoryAnswers == { <<TRUE, TRUE, TRUE, TRUE, TRUE, TRUE>>,
                     <<FALSE, FALSE, FALSE, FALSE, FALSE, FALSE>>,
                     <<TRUE, FALSE, TRUE, FALSE, TRUE, FALSE>> }
\* talkgroup frequency (rx, tx), colour code and time slot
TgRadioAnswers == { <<"430.00000", "430.00000", 1, 2>>, <<"442.20000", "442.20000", 7, 1>> }

BuilderInputs ==
    { [tg_count |-> cnt, dmr_id |-> DefaultDmrId, tg_zone_name |-> zone,
       is_hotspot |-> hot, digital_power |-> IF hot THEN "Low" ELSE "Middle",
       tg_rx |-> radio[1], tg_tx |-> radio[2], tg_color |-> radio[3], tg_slot |-> radio[4],
       ans_popular |-> pop,
       include_frs |-> cat[1], include_murs |-> cat[2], include_air |-> cat[3],
       include_marine |-> cat[4], include_ham |-> cat[5], include_noaa |-> cat[6],
       analog_repeaters |-> reps, dmr_repeater |-> dmr] :
         cnt \in {0, 50}, zone \in {"Hotspot", "Marine"}, hot \in BOOLEAN, pop \in BOOLEAN,
         radio \in TgRadioAnswers, cat \in CategoryAnswers,
         reps \in {<<>>, <<LongRepeater>>, <<PipeRepeater>>},
         dmr \in {<<>>, prompt_dmr_repeater(DmrAnswers)} }

\* talkgroup files given to the builder
BuilderFiles ==
    {NoFile, Unreadable}
    \cup {[exists |-> TRUE, readable |-> TRUE, columns |-> {"No.", "Name", "ID", "Type"},
           rows |-> r] : r \in SeqsUpTo(TgRows, 1)}

InitBuilder ==
    /\ prog = "builder"
    /\ inp \in BuilderInputs
    /\ file \in BuilderFiles
    /\ InitCommon

\* lines 184-192: the talkgroup path is asked for and checked
BldPath ==
    /\ prog = "builder" /\ pc = "start"
    /\ IF ~file.exists
       THEN /\ err_msg' = TRUE
            /\ pc' = "done"
       ELSE /\ pc' = "load"
            /\ err_msg' = err_msg
    /\ UNCHANGED <<prog, inp, file, df, tg_list, channels, zone_map, contact_csv,
                   channels_csv, zones_csv, written, exc, retval>>
    /\ UNCHANGED <<answers, console, result>>

\* lines 193-256: the other prompts, then load_talkgroups(tg_path, tg_count)
BldLoad ==
    /\ prog = "builder" /\ pc = "load"
    /\ LET r == load_talkgroups(file, inp.tg_count)
       IN  IF r.raised # ""
           THEN /\ exc' = r.raised
                /\ pc' = "raised"
                /\ tg_list' = tg_list
           ELSE /\ tg_list' \in r.lists
                /\ pc' = "build"
                /\ exc' = exc
    /\ UNCHANGED <<prog, inp, file, df, channels, zone_map, contact_csv,
                   channels_csv, zones_csv, written, err_msg, retval>>
    /\ UNCHANGED <<answers, console, result>>

include_popular_in_hotspot(a) == a.is_hotspot /\ a.ans_popular
include_popular_zone(a) == ~a.is_hotspot /\ a.ans_popular

\* f"Slot {tg_slot}"
SlotText(n) == IF n = 1 THEN "Slot 1" ELSE "Slot 2"

\* lines 258-388: the channel list
BldChannels(a, tgs) ==
    LET pop_list == build_popular_talkgroups(a.tg_rx, a.tg_tx, TRUE)
    IN  [i \in DOMAIN a.analog_repeaters |->
            AnalogChannel(a.analog_repeaters[i].name, a.analog_repeaters[i].rx,
                          a.analog_repeaters[i].tx, "High", "12.5KHz",
                          a.analog_repeaters[i].ctcss)]
        \o a.dmr_repeater
        \o [i \in DOMAIN tgs |->
              DigitalChannel(TgChannelName(tgs[i][1], tgs[i][2], TRUE),
                             a.tg_rx, a.tg_tx, a.digital_power, "12.5KHz",
                             a.tg_color, SlotText(a.tg_slot), tgs[i][1], tgs[i][2])]
        \o (IF a.include_frs THEN build_frs_gmrs_channels ELSE <<>>)
        \o (IF a.include_murs THEN build_murs_channels ELSE <<>>)
        \o (IF a.include_air THEN build_airband_channels ELSE <<>>)
        \o (IF a.include_marine THEN build_marine_channels ELSE <<>>)
        \o (IF a.include_ham THEN build_ham_call_channels ELSE <<>>)
        \o (IF a.include_noaa THEN build_noaa_weather_channels ELSE <<>>)
        \o (IF include_popular_in_hotspot(a) \/ include_popular_zone(a)
            THEN [i \in DOMAIN pop_list |->
                    [pop_list[i] EXCEPT !.power = IF include_popular_in_hotspot(a)
                                                  THEN a.digital_power ELSE @]]
            ELSE <<>>)

\* zone_map[zone] = members when cond holds
DictSetIf(cond, zm, zone, members) == IF cond THEN DictSet(zm, zone, members) ELSE zm

\* lines 390-433: the zone map
BldZoneMap(a, chs, tgs) ==
    LET z1 == DictSetIf(a.analog_repeaters # <<>>, <<>>, "Analog Repeaters",
                        ZoneNames(a.analog_repeaters))
        z2 == DictSetIf(a.dmr_repeater # <<>>, z1, "DMR Repeater", ZoneNames(a.dmr_repeater))
        z3 == DictSet(z2, a.tg_zone_name,
                      TalkgroupZoneMembers(chs, tgs, a.tg_rx, a.tg_tx, TRUE))
        z4 == DictSetIf(a.include_frs, z3, "GMRS/FRS", ZoneNames(build_frs_gmrs_channels))
        z5 == DictSetIf(a.include_murs, z4, "MURS", ZoneNames(build_murs_channels))
        z6 == DictSetIf(a.include_air, z5, "Air Band", ZoneNames(build_airband_channels))
        z7 == DictSetIf(a.include_marine, z6, "Marine", ZoneNames(build_marine_channels))
        z8 == DictSetIf(a.include_ham, z7, "Ham Calls", ZoneNames(build_ham_call_channels))
        z9 == DictSetIf(a.include_noaa, z8, "NOAA", ZoneNames(build_noaa_weather_channels))
    IN  DictSetIf(include_popular_zone(a), z9, "Popular TGs",
                  ZoneNames(build_popular_talkgroups(a.tg_rx, a.tg_tx, TRUE)))

\* lines 258-433: channels and zone_map are built
BldBuild ==
    /\ prog = "builder" /\ pc = "build"
    /\ channels' = BldChannels(inp, tg_list)
    /\ zone_map' = BldZoneMap(inp, channels', tg_list)
    /\ pc' = "write"
    /\ UNCHANGED <<prog, inp, file, df, tg_list, contact_csv,
                   channels_csv, zones_csv, written, err_msg, exc, retval>>
    /\ UNCHANGED <<answers, console, result>>

\* lines 435-442: both files are written
BldWrite ==
    /\ prog = "builder" /\ pc = "write"
    /\ LET n == EncodableRows(channels, inp.dmr_id)
       IN  IF n < Len(channels)
           THEN /\ channels_csv' = SubSeq(write_channels_csv(channels, inp.dmr_id), 1, n)
                /\ written' = written \cup {"channels"}
                /\ exc' = "UnicodeEncodeError"
                /\ pc' = "raised"
                /\ zones_csv' = zones_csv
           ELSE /\ channels_csv' = write_channels_csv(channels, inp.dmr_id)
                /\ zones_csv' = write_zones_csv(zone_map)
                /\ written' = written \cup {"channels", "zones"}
                /\ pc' = "done"
                /\ exc' = exc
    /\ UNCHANGED <<prog, inp, file, df, tg_list, channels, zone_map, contact_csv,
                   err_msg, retval>>
    /\ UNCHANGED <<answers, console, result>>

NextBuilder == BldPath \/ BldLoad \/ BldBuild \/ BldWrite
SpecBuilder == InitBuilder /\ [][NextBuilder]_vars

(***************************************************************************)
(* The three utilities                                                     *)
(***************************************************************************)
Init == InitNorm \/ InitGen \/ InitBuilder
Next == NextNorm \/ NextGen \/ NextBuilder
Spec == Init /\ [][Next]_vars

\* the exit status of the process: the normaliser and the generator end with
\* raise SystemExit(main()), the builder with a bare main(); an exception that
\* escapes ends the interpreter with status 1
ExitStatus ==
    IF pc = "raised" THEN 1
    ELSE IF prog = "builder" THEN 0
    ELSE retval


(***************************************************************************)
(* Properties of load_talkgroups                                           *)
(***************************************************************************)
\* load_talkgroups has returned tg_list to the generator
Loaded == prog = "generator" /\ pc \in {"build", "write"}

\* the rows of the talkgroup file that pass the name filter
NameFiltered ==
    Filter(file.rows, {i \in DOMAIN file.rows : PassesNameFilter(file.rows[i].Name)})

\* tg_list is in ascending ID order
AscendingIds == \A i, j \in DOMAIN tg_list : i < j => tg_list[i][2] <= tg_list[j][2]

\* tg_list holds name-filtered rows of the file, each taken once, and no
\* name-filtered row that is left out has an ID smaller than a returned one
SmallestIds ==
    LET n == Len(NameFiltered)
    IN  \E f \in [DOMAIN tg_list -> 1..n] :
           /\ \A i, j \in DOMAIN tg_list : i # j => f[i] # f[j]
           /\ \A i \in DOMAIN tg_list :
                 tg_list[i] = <<NameFiltered[f[i]].Name, NameFiltered[f[i]].ID>>
           /\ \A k \in 1..n :
                 (\A i \in DOMAIN tg_list : f[i] # k)
                 => \A i \in DOMAIN tg_list : NameFiltered[k].ID >= tg_list[i][2]

\* C10 (as stated): load_talkgroups returns at most count talkgroups for every
\* integer count, in ascending ID order, and they are the name-filtered
\* talkgroups with the smallest IDs.
C10_AtMostCountForEveryCount ==
    Loaded => /\ Len(tg_list) <= inp.pi_star_count
              /\ AscendingIds
              /\ SmallestIds

\* C10 (amended): for a count of zero or more load_talkgroups returns
\* min(count, number of name-filtered talkgroups) talkgroups; for a negative
\* count it returns all name-filtered talkgroups but the last |count|; for
\* every count they are in ascending ID order and are the name-filtered
\* talkgroups with the smallest IDs.
C10_CountIsMaximumWhenNonNegative ==
    Loaded => /\ inp.pi_star_count >= 0
                 => Len(tg_list) = Min(inp.pi_star_count, Len(NameFiltered))
              /\ inp.pi_star_count < 0
                 => Len(tg_list) = Max(Len(NameFiltered) + inp.pi_star_count, 0)
              /\ AscendingIds
              /\ SmallestIds

\* the count cuts the list: two name-filtered rows with different IDs, one returned
C10_Witness ==
    /\ Loaded
    /\ inp.pi_star_count = 1
    /\ Len(tg_list) = 1
    /\ \E k \in DOMAIN NameFiltered : NameFiltered[k].ID > tg_list[1][2]

(***************************************************************************)
(* Properties of the channels and zones files                              *)
(***************************************************************************)
\* the channel names a Channel Members cell lists: the pieces between "|"
MembersListed(cell) ==
    LET seps == {i \in DOMAIN cell : cell[i] = "|"} \cup {0, Len(cell) + 1}
    IN  {SubSeq(cell, a + 1, b - 1) :
            <<a, b>> \in {p \in seps \X seps :
                            /\ p[1] + 1 < p[2]
                            /\ \A i \in seps : ~(p[1] < i /\ i < p[2])}}

ChannelNames == {channels_csv[i].ChannelName : i \in DOMAIN channels_csv}

\* C4: in a run of the generator or of the builder that wrote its files, every
\* channel name listed as a member of a zone in the zones file has at most 16
\* characters and is the Channel Name of a row of the channels file.
C4_ZoneMembersAreChannelNames ==
    (prog \in {"generator", "builder"} /\ "zones" \in written)
    => \A z \in DOMAIN zones_csv :
          \A m \in MembersListed(zones_csv[z].Members) :
             Len(m) <= 16 /\ m \in ChannelNames

(***************************************************************************)
(* Properties of the way a run ends                                        *)
(***************************************************************************)
Terminated == pc \in {"done", "raised"}

\* the generator's path is the --talkgroups option or the answer to the prompt
InputMissing ==
    \/ ~file.exists
    \/ prog = "generator" /\ OrDefault(inp.talkgroups, <<>>) = <<>>

\* C7: in each of the three utilities, when the input file does not exist, or
\* the normaliser cannot read the CSV, the run prints an error message (its
\* own, or the traceback of an exception) and ends with a non-zero exit status.
C7_MissingInputIsAnError ==
    (/\ Terminated
     /\ \/ InputMissing
        \/ prog = "normaliser" /\ ~file.readable)
    => /\ err_msg \/ pc = "raised"
       /\ ExitStatus # 0

\* C8: a run of the normaliser or of the generator ends only by writing its
\* output and returning 0 or by reporting an error and returning 1, never
\* through an exception that main() does not handle.
C8_OnlyTwoWaysToEnd ==
    (prog \in {"normaliser", "generator"} /\ Terminated)
    => /\ pc = "done"
       /\ \/ retval = 0 /\ written # {} /\ ~err_msg
          \/ retval = 1 /\ written = {} /\ err_msg

(***************************************************************************)
(* load_talkgroups alone: a file and a count, then the call                *)
(***************************************************************************)
LoadNameCells == { NaN, <<"A","-","B">>, <<"a","_","b">>, <<"A","b","\n">>, <<"N"," ","1">>, <<"U+00E9">> }
LoadRows == [Name : LoadNameCells, ID : TgIds]
LoadFiles ==
    {[exists |-> TRUE, readable |-> TRUE, columns |-> {"No.", "Name", "ID", "Type"},
      rows |-> r] : r \in SeqsUpTo(LoadRows, MaxTgRows)}

InitLoad ==
    /\ prog = "load_talkgroups"
    /\ inp \in [count : Counts]
    /\ file \in LoadFiles
    /\ InitCommon

\* tg_list = load_talkgroups(path, count)
LoadApply ==
    /\ prog = "load_talkgroups" /\ pc = "start"
    /\ LET r == load_talkgroups(file, inp.count)
       IN  IF r.raised # ""
           THEN /\ exc' = r.raised
                /\ pc' = "raised"
                /\ tg_list' = tg_list
           ELSE /\ tg_list' \in r.lists
                /\ pc' = "done"
                /\ exc' = exc
    /\ UNCHANGED <<prog, inp, file, df, channels, zone_map, contact_csv,
                   channels_csv, zones_csv, written, err_msg, retval>>
    /\ UNCHANGED <<answers, console, result>>

NextLoad == LoadApply
SpecLoad == InitLoad /\ [][NextLoad]_vars

\* load_talkgroups has returned
Returned == prog = "load_talkgroups" /\ pc = "done"

LettersDigitsSpaces == Upper \cup Lower \cup Digit \cup {" "}
OnlyFrom(name, chars) == name # NaN /\ \A i \in DOMAIN name : name[i] \in chars

LetThrough(name) ==
    /\ name # NaN
    /\ \E n \in 1..Len(name) :
          /\ \A i \in 1..n : name[i] \in LettersDigitsSpaces \cup {".", "&", "/", "-"}
          /\ n = Len(name) \/ (n = Len(name) - 1 /\ name[Len(name)] = "\n")

TalkgroupNames == { <<"N","o","r","t","h"," ","A","m","e","r","i","c","a">>,
                    <<"S","o","u","t","h"," ","K","o","r","e","a">>,
                    <<"S","o","u","t","h"," ","A","m","e","r","i","c","a">>,
                    <<"n","o","r","t","h"," ","s","e","a">>,
                    <<"N","o","r","t","h","e","r","n"," ","I","r","e","l","a","n","d">>,
                    <<"U","n","i","t","e","d"," ","K","i","n","g","d","o","m"," ","A","n","d"," ","I","r","e","l","a","n","d">>,
                    <<"W","o","r","l","d","w","i","d","e">>,
                    <<"T","A","C"," ","3","1","0">>,
                    <<"A">>,
                    <<"N","o","r","t","h"," "," ","D","a","k","o","t","a">>,
                    <<"S","o","u","t","h"," ","A","u","s","t","r","a","l","i","a">> }
\* str(tg_id) for IDs of 1 to 15 digits
IdTexts == { <<"7">>, <<"9","1">>, <<"3","1","0","0">>, <<"3","1","2","6","8">>, <<"1","2","3","4","5","6","7","8","9","0","1","2","3","4">>, <<"1","2","3","4","5","6","7","8","9","0","1","2","3","4","5">>, <<"-","5">> }

InitName ==
    /\ prog = "channel_name"
    /\ file = NoFile
    /\ inp \in [name : TalkgroupNames, id_str : IdTexts, include_id : BOOLEAN]
    /\ InitCommon

\* generator lines 632-654, builder lines 283-299, then write_channels_csv
NameApply ==
    /\ prog = "channel_name" /\ pc = "start"
    /\ channels' = <<DigitalChannel(NameWithId(inp.name, inp.id_str, inp.include_id),
                                    HotspotFreq, HotspotFreq, "Middle", "12.5KHz", 1,
                                    "Slot 2", inp.name, inp.id_str)>>
    /\ channels_csv' = write_channels_csv(channels', DefaultDmrId)
    /\ written' = {"channels"}
    /\ pc' = "done"
    /\ UNCHANGED <<prog, inp, file, df, tg_list, zone_map, contact_csv,
                   zones_csv, err_msg, exc, retval>>
    /\ UNCHANGED <<answers, console, result>>

NextName == NameApply
SpecName == InitName /\ [][NextName]_vars

Named == prog = "channel_name" /\ pc = "done"

\* C12: when the ID is appended, the channel name is a prefix of the
\* abbreviated name, one space and the complete decimal ID, it has at most 16
\* characters, and the truncation of write_channels_csv leaves it whole.
C12_NameEndsWithWholeId ==
    (Named /\ inp.include_id)
    => /\ \E k \in 0..Len(channels[1].name) :
             /\ k <= Len(abbreviate_name(inp.name))
             /\ channels[1].name
                  = SubSeq(abbreviate_name(inp.name), 1, k) \o <<" ">> \o inp.id_str
       /\ Len(channels[1].name) <= 16
       /\ channels_csv[1].ChannelName = channels[1].name

(***************************************************************************)
(* Properties of abbreviate_name, read from the name of a channel made     *)
(* without the ID (abbr[:16])                                              *)
(***************************************************************************)
Abbreviated == Named /\ ~inp.include_id

\* name is North or South (in any case), one space, and one more word
DirectionAndWord(name) ==
    /\ Len(name) > 6
    /\ LowerText(SubSeq(name, 1, 5)) \in {<<"n","o","r","t","h">>, <<"s","o","u","t","h">>}
    /\ name[6] = " "
    /\ \A i \in 7..Len(name) : name[i] # " "
FollowingWord(name) == SubSeq(name, 7, Len(name))
\* the single words that abbreviate_name replaces
ReplacedWords == { <<"n","o","r","t","h">>, <<"s","o","u","t","h">>, <<"a","m","e","r","i","c","a">>, <<"a","u","s","t","r","a","l","i","a">>, <<"u","n","i","t","e","d">>, <<"k","i","n","g","d","o","m">>, <<"r","e","p","u","b","l","i","c">>, <<"d","o","m","i","n","i","c","a","n">>, <<"a","n","d">> }
Initial(name) == IF LowerText(SubSeq(name, 1, 5)) = <<"n","o","r","t","h">> THEN "N" ELSE "S"

BoolVal(b) == [kind |-> "bool", v |-> b]
StrVal(t) == [kind |-> "str", v |-> t]
IntVal(n) == [kind |-> "int", v |-> n]
\* a number with its fraction digits, trailing zeros dropped
FloatVal(neg, whole, frac) == [kind |-> "float", v |-> <<neg, whole, frac>>]
NanVal == [kind |-> "float", v |-> <<FALSE, 0, <<"n","a","n">> >>]
InfVal(neg) == [kind |-> "float", v |-> <<neg, 0, <<"i","n","f">> >>]
\* prompt_repeater leaves its loop: no repeater is added
StopAdding == [kind |-> "stop", v |-> 0]

RECURSIVE DropTrailingZeros(_)
DropTrailingZeros(d) ==
    IF d # <<>> /\ d[Len(d)] = "0" THEN DropTrailingZeros(SubSeq(d, 1, Len(d) - 1)) ELSE d

\* float(t) for a text without exponent: the number, or ValueError
FloatOfText(t) ==
    LET u == Strip(t)
        signed == u # <<>> /\ u[1] \in {"+", "-"}
        neg == u # <<>> /\ u[1] = "-"
        body == IF signed THEN Tail(u) ELSE u
        dots == {i \in DOMAIN body : body[i] = "."}
        dot == IF dots = {} THEN Len(body) + 1 ELSE CHOOSE i \in dots : TRUE
        ip == SubSeq(body, 1, dot - 1)
        fp == SubSeq(body, dot + 1, Len(body))
        number == /\ Cardinality(dots) <= 1
                  /\ IsDigits(ip) /\ IsDigits(fp)
                  /\ Len(ip) + Len(fp) >= 1
    IN  IF LowerText(body) \in {<<"i","n","f">>, <<"i","n","f","i","n","i","t","y">>}
        THEN [kind |-> "float", v |-> InfVal(neg)]
        ELSE IF LowerText(body) = <<"n","a","n">>
        THEN [kind |-> "float", v |-> NanVal]
        ELSE IF number
        THEN [kind |-> "float", v |-> FloatVal(neg, DigitsVal(ip), DropTrailingZeros(fp))]
        ELSE [kind |-> "ValueError", v |-> NotReturned]

\* what one turn of a prompt does with the line it reads: return a value, or
\* print a message and ask again
Return(value) == [returns |-> TRUE, value |-> value]
AskAgain == [returns |-> FALSE, value |-> NotReturned]

\* lines 68-76
prompt_yes_no(default, line) ==
    LET ans == LowerText(Strip(line))
    IN  IF ans = <<>> THEN Return(default)
        ELSE IF ans \in {<<"y">>, <<"y","e","s">>} THEN Return(BoolVal(TRUE))
        ELSE IF ans \in {<<"n">>, <<"n","o">>} THEN Return(BoolVal(FALSE))
        ELSE AskAgain

\* a prompt_string that returns the answer as it is
PromptStringNoDefault(default, line) == Return(StrVal(Strip(line)))
\* lines 81-82
prompt_string(default, line) ==
    LET ans == Strip(line)
    IN  Return(IF ans = <<>> THEN default ELSE StrVal(ans))

\* a prompt_int that falls back to the default on an answer that is no integer
PromptIntLenient(default, line) ==
    LET ans == Strip(line)
    IN  IF ans = <<>> \/ PyInt(ans).kind # "int"
        THEN Return(default) ELSE Return(IntVal(PyInt(ans).v))
\* lines 87-94
prompt_int(default, line) ==
    LET ans == Strip(line)
    IN  IF ans = <<>> THEN Return(default)
        ELSE IF PyInt(ans).kind = "int" THEN Return(IntVal(PyInt(ans).v))
        ELSE AskAgain

\* lines 99-106
prompt_float(default, line) ==
    LET ans == Strip(line)
    IN  IF ans = <<>> THEN Return(default)
        ELSE IF FloatOfText(ans).kind = "float" THEN Return(FloatOfText(ans).v)
        ELSE AskAgain

\* lines 119-121: the repeater name asked by prompt_repeater
repeater_name(default, line) ==
    LET name == Strip(line)
    IN  IF name = <<>> THEN Return(StopAdding) ELSE Return(StrVal(name))

Respond(fn, default, line) ==
    CASE fn = "prompt_yes_no" -> prompt_yes_no(default, line)
      [] fn = "prompt_string" -> prompt_string(default, line)
      [] fn = "prompt_int" -> prompt_int(default, line)
      [] fn = "prompt_float" -> prompt_float(default, line)
      [] fn = "repeater_name" -> repeater_name(default, line)

MaxAnswers == 3     \* lines typed in answer to one prompt function

\* the prompts of the builder with a default of each, and lines a user may type
PromptCalls ==
    [fn : {"prompt_yes_no"}, default : {BoolVal(TRUE), BoolVal(FALSE)}]
    \cup [fn : {"prompt_string"}, default : {StrVal(<<"H","o","t","s","p","o","t">>), StrVal(<<"0">>)}]
    \cup [fn : {"prompt_int"}, default : {IntVal(50), IntVal(2)}]
    \cup [fn : {"prompt_float"}, default : {FloatVal(FALSE, 430, <<>>), FloatVal(FALSE, 146, <<"5","2">>)}]
    \cup [fn : {"repeater_name"}, default : {NotReturned}]
Lines(fn) ==
    CASE fn = "prompt_yes_no" -> { <<>>, <<" ","Y","E","S"," ">>, <<"n">>, <<"m","a","y","b","e">> }
      [] fn = "prompt_string" -> { <<>>, <<" ","a","b"," ">> }
      [] fn = "prompt_int" -> { <<" ">>, <<" ","7"," ">>, <<"x">>, <<"1",".","5">> }
      [] fn = "prompt_float" -> { <<>>, <<"1","4","6",".","5","2","0">>, <<"n","a","n">>, <<"x">> }
      [] fn = "repeater_name" -> { <<>>, <<"W","1","A","W">> }

InitPrompt ==
    /\ prog = "prompt"
    /\ file = NoFile
    /\ inp \in PromptCalls
    /\ answers \in SeqsUpTo(Lines(inp.fn), MaxAnswers)
    /\ console = <<>>
    /\ result = NotReturned
    /\ InitOutputs

Shown(ev, text) == [ev |-> ev, text |-> text]

\* input(prompt) writes the prompt
PromptShow ==
    /\ prog = "prompt" /\ pc = "start"
    /\ console' = Append(console, Shown("prompt", <<>>))
    /\ pc' = "reading"
    /\ UNCHANGED <<prog, inp, file, df, tg_list, channels, zone_map, contact_csv,
                   channels_csv, zones_csv, written, err_msg, exc, retval,
                   answers, result>>

\* input(prompt) reads a line, and the function returns or prints its message
\* and goes round its loop
PromptRead ==
    /\ prog = "prompt" /\ pc = "reading"
    /\ answers # <<>>
    /\ LET r == Respond(inp.fn, inp.default, Head(answers))
       IN  /\ answers' = Tail(answers)
           /\ console' = console \o <<Shown("answer", Head(answers))>>
                         \o (IF r.returns THEN <<>> ELSE <<Shown("message", <<>>)>>)
           /\ result' = r.value
           /\ pc' = IF r.returns THEN "done" ELSE "start"
    /\ UNCHANGED <<prog, inp, file, df, tg_list, channels, zone_map, contact_csv,
                   channels_csv, zones_csv, written, err_msg, exc, retval>>

\* input(prompt) at the end of standard input raises EOFError
PromptEOF ==
    /\ prog = "prompt" /\ pc = "reading"
    /\ answers = <<>>
    /\ exc' = "EOFError"
    /\ pc' = "raised"
    /\ UNCHANGED <<prog, inp, file, df, tg_list, channels, zone_map, contact_csv,
                   channels_csv, zones_csv, written, err_msg, retval,
                   answers, console, result>>

NextPrompt == PromptShow \/ PromptRead \/ PromptEOF
SpecPrompt == InitPrompt /\ [][NextPrompt]_vars

\* the lines read so far, in order
LinesRead ==
    LET idx == {i \in DOMAIN console : console[i].ev = "answer"}
        read == Filter(console, idx)
    IN  [i \in DOMAIN read |-> read[i].text]
PromptsShown == Cardinality({i \in DOMAIN console : console[i].ev = "prompt"})
LastLine == LinesRead[Len(LinesRead)]
EmptyLine(line) == Strip(line) = <<>>
PromptReturned == prog = "prompt" /\ pc = "done"

ValidLine(fn, line) ==
    CASE fn = "prompt_yes_no" ->
            LowerText(Strip(line)) \in {<<"y">>, <<"y","e","s">>, <<"n">>, <<"n","o">>}
      [] fn = "prompt_int" -> PyInt(Strip(line)).kind = "int"
      [] fn = "prompt_float" -> FloatOfText(Strip(line)).kind = "float"
      [] OTHER -> TRUE
ValueOf(fn, line) ==
    CASE fn = "prompt_yes_no" -> BoolVal(LowerText(Strip(line)) \in {<<"y">>, <<"y","e","s">>})
      [] fn = "prompt_int" -> IntVal(PyInt(Strip(line)).v)
      [] fn = "prompt_float" -> FloatOfText(Strip(line)).v
      [] OTHER -> NotReturned

\* C19: prompt_yes_no, prompt_int and prompt_float return only on an empty
\* answer (the default) or a valid one (its value), at the first such answer;
\* every other answer is followed by a message and then by a new prompt.
C19_ReturnsOnlyOnEmptyOrValid ==
    (prog = "prompt" /\ inp.fn \in {"prompt_yes_no", "prompt_int", "prompt_float"})
    => /\ pc = "done"
          => /\ LinesRead # <<>>
             /\ EmptyLine(LastLine) \/ ValidLine(inp.fn, LastLine)
             /\ result = IF EmptyLine(LastLine) THEN inp.default
                         ELSE ValueOf(inp.fn, LastLine)
       /\ pc # "done" => result = NotReturned
       /\ \A i \in DOMAIN LinesRead :
             (i < Len(LinesRead) \/ pc # "done")
             => ~EmptyLine(LinesRead[i]) /\ ~ValidLine(inp.fn, LinesRead[i])
       /\ \A k \in DOMAIN console :
             /\ console[k].ev = "answer" => k > 1 /\ console[k - 1].ev = "prompt"
             /\ (/\ console[k].ev = "answer"
                 /\ ~EmptyLine(console[k].text)
                 /\ ~ValidLine(inp.fn, console[k].text))
                => /\ k < Len(console) /\ console[k + 1].ev = "message"
                   /\ IF k + 1 < Len(console) THEN console[k + 2].ev = "prompt"
                      ELSE pc = "start"

\* prompt_int has returned after an answer that is no integer
C19_Witness ==
    /\ PromptReturned
    /\ inp.fn = "prompt_int"
    /\ Len(LinesRead) >= 2
    /\ ~EmptyLine(LastLine)

(***************************************************************************)
(* Properties of the zones and channels of a generator run                 *)
(***************************************************************************)
GenBuilt == prog = "generator" /\ pc \in {"write", "done"} /\ zone_map # <<>>

\* the members of a zone of zone_map, none if there is no such zone
ZoneMembers(zone) ==
    LET idx == {i \in DOMAIN zone_map : zone_map[i].zone = zone}
    IN  IF idx = {} THEN <<>> ELSE zone_map[CHOOSE i \in idx : TRUE].members

\* the channel names of the loaded talkgroups, in the order of tg_list
LoadedChannelNames ==
    [i \in DOMAIN tg_list |->
        sanitise_channel_name(TgChannelName(tg_list[i][1], tg_list[i][2],
                                            ~inp.no_tg_id_in_name))]

\* C15: in the generator the "Pi-Star" zone has exactly one member per loaded
\* talkgroup, in the order of the loaded list (ascending ID), and no member
\* that comes from the built-in popular talkgroups.
C15_PiStarHoldsLoadedOnly ==
    GenBuilt => ZoneMembers("Pi-Star") = LoadedChannelNames

(***************************************************************************)
(* Properties of the channels and zones of a builder run                   *)
(***************************************************************************)
BuilderWrote == prog = "builder" /\ pc = "done" /\ "channels" \in written

\* rows of the channels file made from the imported talkgroups: they follow
\* the analog repeaters and the DMR repeater
ImportedRows ==
    LET first == Len(inp.analog_repeaters) + Len(inp.dmr_repeater)
    IN  (first + 1) .. (first + Len(tg_list))
\* rows made from the popular talkgroups: the last ones, when they are included
PopularRows ==
    IF inp.ans_popular
    THEN (Len(channels_csv) - Len(popular_tgs) + 1) .. Len(channels_csv)
    ELSE {}

HasUserRadioSettings(row) ==
    /\ row.RX = inp.tg_rx
    /\ row.TX = inp.tg_tx
    /\ row.ColorCode = IntStr(inp.tg_color)
    /\ row.TimeSlot = SlotText(inp.tg_slot)

\* C16: in the builder every imported talkgroup channel and every popular
\* talkgroup channel that is included has the user's RX and TX frequency, the
\* user's colour code and the user's time slot.
C16_UserRadioSettingsOnTalkgroupRows ==
    BuilderWrote
    => \A i \in ImportedRows \cup PopularRows : HasUserRadioSettings(channels_csv[i])

\* the channel names of the imported talkgroups, in the order of tg_list
ImportedChannelNames ==
    [i \in DOMAIN tg_list |->
        sanitise_channel_name(TgChannelName(tg_list[i][1], tg_list[i][2], TRUE))]

\* the talkgroup zone keeps the name the user gave it (no category zone of the
\* same name replaces it)
TalkgroupZoneKept == ~(inp.tg_zone_name = "Marine" /\ inp.include_marine)

\* C17: in the builder, when the zone is not a hotspot and a separate zone of
\* popular talkgroups is asked for, the popular channels are the members of
\* "Popular TGs" and the talkgroup zone holds the imported talkgroups only;
\* the popular channels are members of the talkgroup zone only when the user
\* said yes to including them in that zone.
C17_PopularOnlyInItsOwnZone ==
    (BuilderWrote /\ TalkgroupZoneKept)
    => /\ include_popular_zone(inp)
          => /\ ZoneMembers("Popular TGs") = PopularNames[TRUE]
             /\ ZoneMembers(inp.tg_zone_name) = ImportedChannelNames
       /\ ~include_popular_in_hotspot(inp)
          => ZoneMembers(inp.tg_zone_name) = ImportedChannelNames

(***************************************************************************)
(* Properties of write_channels_csv in a generator run                     *)
(***************************************************************************)
GenWrote == prog = "generator" /\ pc = "done" /\ "channels" \in written

\* the channel has no CTCSS tone: no ctcss key, or ctcss set to None
NoTone(ch) == "ctcss" \notin ch.keys \/ ch.ctcss = None

\* C18: every row has the same value in CTC/DCS Decode and CTC/DCS Encode:
\* the text "None" for a channel without a tone, the tone for a channel with one.
C18_ToneOrNoneInBothColumns ==
    GenWrote
    => \A i \in DOMAIN channels_csv :
          /\ channels_csv[i].CTCDecode = channels_csv[i].CTCEncode
          /\ channels_csv[i].CTCDecode = IF NoTone(channels[i])
                                         THEN <<"N","o","n","e">>
                                         ELSE channels[i].ctcss

\* C20: in the channels file of a generator run the Channel Name values are
\* pairwise distinct.
C20_ChannelNamesAreDistinct ==
    GenWrote
    => \A i, j \in DOMAIN channels_csv :
          i # j => channels_csv[i].ChannelName # channels_csv[j].ChannelName


(***************************************************************************)
(* The normaliser's output read by the generator: main() of the normaliser *)
(* up to to_csv, then load_talkgroups on the file it wrote                 *)
(***************************************************************************)
MaxPipeRows == 2    \* rows of the vendor CSV in the two-utility run

\* cell texts pd.read_csv takes for a missing value (default na_values),
\* those that sanitise_name can produce
NaTokens == { <<>>, <<"N","A">>, <<"N","a","N">>, <<"n","a","n">>,
              <<"N","U","L","L">>, <<"n","u","l","l">>, <<"N","o","n","e">>,
              <<"-","N","a","N">>, <<"-","n","a","n">> }
\* a cell pd.read_csv parses as a number: an optional sign and digits
IsNumberText(t) ==
    LET digits == IF t # <<>> /\ t[1] = "-" THEN Tail(t) ELSE t
    IN  digits # <<>> /\ IsDigits(digits)
\* pd.read_csv of the contact file: the Name column as the generator sees it.
\* A missing-value token becomes NaN; a column whose other cells are all
\* numbers is a numeric column, not a column of strings.
read_contact_csv(rows) ==
    LET cell(k) == IF rows[k].Name \in NaTokens THEN NaN ELSE rows[k].Name
        present == {k \in DOMAIN rows : cell(k) # NaN}
    IN  [strings |-> rows = <<>> \/ \E k \in present : ~IsNumberText(cell(k)),
         file |-> [exists |-> TRUE, readable |-> TRUE,
                   columns |-> {"No.", "Name", "ID", "Type"},
                   rows |-> [k \in DOMAIN rows |-> [Name |-> cell(k), ID |-> rows[k].ID]]]]

PipeNames == { <<"A"," ","b">>, <<"a","_","b">>, <<"A","-","B">>, <<"N","A">>,
               <<"7">>, <<"U+00E9">>, <<".">>, <<"N",".","A",".","T">>, <<" ">> }
PipeIds == { <<"9","1">>, <<"7">> }
PipeRows == [ID : PipeIds, Name : PipeNames]
PipeFiles ==
    {[exists |-> TRUE, readable |-> TRUE, columns |-> {"Talkgroup", "Name"}, rows |-> r] :
        r \in SeqsUpTo(PipeRows, MaxPipeRows)}
PipeCounts == {1, 150}

InitPipe ==
    /\ prog = "pipeline"
    /\ file \in PipeFiles
    /\ inp \in [max_length : {0, 2, 16}, count : PipeCounts]
    /\ InitCommon

\* the normaliser: normalise_talkgroups, convert_to_dm32_format, to_csv
PipeNormalise ==
    /\ prog = "pipeline" /\ pc = "start"
    /\ LET r == normalise_talkgroups(file.columns, file.rows)
       IN  IF r.raised # ""
           THEN /\ exc' = r.raised
                /\ pc' = "raised"
                /\ UNCHANGED <<df, contact_csv, written, retval>>
           ELSE /\ df' = convert_to_dm32_format(r.rows, inp.max_length)
                /\ contact_csv' = df'
                /\ written' = {"contact"}
                /\ retval' = 0
                /\ pc' = "load"
                /\ exc' = exc
    /\ UNCHANGED <<prog, inp, file, tg_list, channels, zone_map,
                   channels_csv, zones_csv, err_msg>>
    /\ UNCHANGED <<answers, console, result>>

\* the generator: tg_list = load_talkgroups(<the contact file>, count)
PipeLoad ==
    /\ prog = "pipeline" /\ pc = "load"
    /\ LET read == read_contact_csv(contact_csv)
           r == IF read.strings THEN load_talkgroups(read.file, inp.count)
                ELSE [raised |-> "AttributeError", lists |-> {}]
       IN  IF r.raised # ""
           THEN /\ exc' = r.raised
                /\ pc' = "raised"
                /\ tg_list' = tg_list
           ELSE /\ tg_list' \in r.lists
                /\ pc' = "done"
                /\ exc' = exc
    /\ UNCHANGED <<prog, inp, file, df, channels, zone_map, contact_csv,
                   channels_csv, zones_csv, written, err_msg, retval>>
    /\ UNCHANGED <<answers, console, result>>

NextPipe == PipeNormalise \/ PipeLoad
SpecPipe == InitPipe /\ [][NextPipe]_vars

\* the generator has finished with the file the normaliser wrote
PipeLoaded == prog = "pipeline" /\ pc \in {"done", "raised"} /\ "contact" \in written
\* the (name, id) pairs load_talkgroups returned
LoadedPairs == {tg_list[i] : i \in DOMAIN tg_list}

\* C21: the generator accepts what the normaliser produces: every contact
\* row the normaliser wrote with a non-empty Name passes the name filter of
\* load_talkgroups, and such a row is missing from the loaded list only when
\* the list is as long as the count allows.
C21_GeneratorAcceptsNormaliserOutput ==
    PipeLoaded
    => \A k \in DOMAIN contact_csv :
          contact_csv[k].Name # <<>>
          => /\ PassesNameFilter(contact_csv[k].Name)
             /\ pc = "done"
             /\ \/ <<contact_csv[k].Name, contact_csv[k].ID>> \in LoadedPairs
                \/ Len(tg_list) >= inp.count


\* the normaliser has written the contact file
PipeWritten == prog = "pipeline" /\ "contact" \in written

\* C23: every row of the contact output has a non-empty Name: an input row
\* whose Name is blank, or whose Name sanitises to the empty string, gives no
\* output row.
C23_EveryContactHasAName ==
    PipeWritten => \A k \in DOMAIN contact_csv : contact_csv[k].Name # <<>>


(***************************************************************************)
(* Output files of a run that cannot use its input                         *)
(***************************************************************************)
\* the input file is missing or cannot be read
InputUnusable == InputMissing \/ ~file.readable

\* C22: in a run whose input file is missing or unreadable, no step of the
\* normaliser, the generator or the builder creates, truncates or modifies
\* the contact, channels or zones output.
C22_NothingWrittenWithoutInput ==
    [][InputUnusable => UNCHANGED <<contact_csv, channels_csv, zones_csv, written>>]_vars

\* a run has stopped on a missing or unreadable input file
C22_Witness ==
    /\ Terminated
    /\ InputUnusable
    /\ prog \in {"normaliser", "generator", "builder"}
    /\ written = {}

====
